---- MODULE Spec2Model ----
(***************************************************************************)
(* A model of vjson: the hand-rolled JSON encoder (marshal / marshalTo,    *)
(* encodeString, floatEncoder.encode), the wrapper over encoding/json      *)
(* (Marshal) and the type-inferring decoder (unmarshal / unmarshalFrom /   *)
(* unmarshalNext, newDefaultForToken, deref).                              *)
(*                                                                         *)
(* Bytes are integers 0..255, strings and []byte are sequences of bytes.   *)
(* A Go interface{} value is a record tagged by its dynamic type:          *)
(*   [t |-> "nil"]                         the nil interface               *)
(*   [t |-> "bool",    b |-> BOOLEAN]                                      *)
(*   [t |-> "float64", f |-> Float]  [t |-> "float32", f |-> Float]        *)
(*   [t |-> "int",     i |-> Int]         int, int8 .. uint64              *)
(*   [t |-> "string",  s |-> bytes]                                        *)
(*   [t |-> "list",    isnil |-> BOOLEAN, e |-> sequence of values]        *)
(*   [t |-> "map",     isnil |-> BOOLEAN, m |-> [keys -> values]]          *)
(*   [t |-> "raw",     isnil |-> BOOLEAN, r |-> bytes]    RawMessage       *)
(*   [t |-> "other"]                       any type outside the closed set *)
(* A Float is [k |-> "fin", neg, mant, exp] = (-1)^neg * mant * 10^exp     *)
(* with mant not divisible by 10, or [k |-> "nan" / "inf", ...].           *)
(***************************************************************************)
EXTENDS Integers, Sequences, FiniteSets, TLC

VARIABLES
  op,     \* the call that produced this state ("init" before any call)
  vin,    \* the value handed to the encoder
  w,      \* the io.Writer after the call: bytes written, calls made, failures
  err,    \* what the call returned: "" for nil, else the kind of error
  arg,    \* the call's other arguments: [escapeHTML]
  std,    \* [buf, err]: what Marshal over encoding/json returned
  data,   \* the bytes handed to the decoder
  dst,    \* the destination's static type: the pointer passed to unmarshal
  dest,   \* the value the destination holds
  res     \* the decoder's outcome record

vars == <<op, vin, arg, w, err, std, data, dst, dest, res>>

-----------------------------------------------------------------------------
(* Bounds of the model *)

\* longest list drawn as an encoder input
MaxLen == 2
\* longest lexeme sequence drawn as a decoder input
MaxLexemes == 3
\* the io.Writer may fail on its k-th Write call, k in 1..MaxFailAt
MaxFailAt == 4

-----------------------------------------------------------------------------
(* Small helpers on sequences *)

RECURSIVE Concat(_)
Concat(ss) == IF ss = <<>> THEN <<>> ELSE Head(ss) \o Concat(Tail(ss))

RECURSIVE Repeat(_, _)
Repeat(b, n) == IF n <= 0 THEN <<>> ELSE <<b>> \o Repeat(b, n - 1)

Slice(s, from, to) == IF from > to THEN <<>> ELSE SubSeq(s, from, to)

\* lexicographic order on byte strings (Go's string <)
RECURSIVE StrLess(_, _)
StrLess(a, b) ==
  IF b = <<>> THEN FALSE
  ELSE IF a = <<>> THEN TRUE
  ELSE IF Head(a) # Head(b) THEN Head(a) < Head(b)
  ELSE StrLess(Tail(a), Tail(b))

\* the keys of a set in ascending order
RECURSIVE SortedKeys(_)
SortedKeys(K) ==
  IF K = {} THEN <<>>
  ELSE LET k == CHOOSE x \in K : \A y \in K : x = y \/ StrLess(x, y)
       IN <<k>> \o SortedKeys(K \ {k})

-----------------------------------------------------------------------------
(* The io.Writer.  Every Write is one call; call number failAt fails (0:   *)
(* no call fails, as with bytes.Buffer).  A failed Write writes nothing.   *)

NewWriter(failAt) ==
  [buf |-> <<>>, n |-> 0, failAt |-> failAt, firstFail |-> 0]

\* w.Write(p): the writer after the call and whether the call returned an error
Write(wr, p) ==
  LET k     == wr.n + 1
      fails == k = wr.failAt
  IN [w   |-> [wr EXCEPT !.n = k,
                         !.buf = IF fails THEN @ ELSE @ \o p,
                         !.firstFail = IF fails /\ @ = 0 THEN k ELSE @],
      err |-> IF fails THEN "io" ELSE ""]

\* a Write whose returned error the caller drops
WriteIgnore(wr, p) == Write(wr, p).w

-----------------------------------------------------------------------------
(* unicode/utf8.DecodeRuneInString on s[i:]  (1-based i)                   *)

RuneError == 65533

IsCont(s, j) == j <= Len(s) /\ s[j] >= 128 /\ s[j] <= 191

DecodeRuneInString(s, i) ==
  LET b0  == s[i]
      bad == [c |-> RuneError, size |-> 1]
      lo2 == IF b0 = 224 THEN 160 ELSE IF b0 = 240 THEN 144 ELSE 128
      hi2 == IF b0 = 237 THEN 159 ELSE IF b0 = 244 THEN 143 ELSE 191
      ok2 == i + 1 <= Len(s) /\ s[i + 1] >= lo2 /\ s[i + 1] <= hi2
  IN IF b0 < 128 THEN [c |-> b0, size |-> 1]
     ELSE IF b0 >= 194 /\ b0 <= 223 THEN
       IF IsCont(s, i + 1)
       THEN [c |-> (b0 % 32) * 64 + (s[i + 1] % 64), size |-> 2]
       ELSE bad
     ELSE IF b0 >= 224 /\ b0 <= 239 THEN
       IF ok2 /\ IsCont(s, i + 2)
       THEN [c |-> (b0 % 16) * 4096 + (s[i + 1] % 64) * 64 + (s[i + 2] % 64),
             size |-> 3]
       ELSE bad
     ELSE IF b0 >= 240 /\ b0 <= 244 THEN
       IF ok2 /\ IsCont(s, i + 2) /\ IsCont(s, i + 3)
       THEN [c |-> (b0 % 8) * 262144 + (s[i + 1] % 64) * 4096
                   + (s[i + 2] % 64) * 64 + (s[i + 3] % 64),
             size |-> 4]
       ELSE bad
     ELSE bad

-----------------------------------------------------------------------------
(* The escape tables and encodeString                                      *)

\* safeSet[b]: an ASCII byte that needs no escape
safeSet(b) == b >= 32 /\ b < 128 /\ b # 34 /\ b # 92

\* htmlSafeSet[b]: safeSet without '<', '>', '&'
htmlSafeSet(b) == safeSet(b) /\ b # 60 /\ b # 62 /\ b # 38

\* a hex table in upper case
hexUpper(n) == IF n < 10 THEN 48 + n ELSE 55 + n

\* hex[n] of "0123456789abcdef"
hex(n) == IF n < 10 THEN 48 + n ELSE 87 + n

\* the writes of the switch on an escaped ASCII byte b, after the backslash
EscapeByte(wr, b) ==
  IF b = 92 \/ b = 34 THEN WriteIgnore(wr, <<b>>)
  ELSE IF b = 10 THEN WriteIgnore(wr, <<110>>)
  ELSE IF b = 13 THEN WriteIgnore(wr, <<114>>)
  ELSE IF b = 9 THEN WriteIgnore(wr, <<116>>)
  ELSE WriteIgnore(WriteIgnore(WriteIgnore(wr, <<117, 48, 48>>),
                               <<hex(b \div 16)>>), <<hex(b % 16)>>)

\* the pending run s[start:i], written only when it is not empty
Flush(wr, s, start, i) ==
  IF start < i THEN WriteIgnore(wr, Slice(s, start, i - 1)) ELSE wr

\* the loop of encodeString; i and start are 1-based
RECURSIVE encodeStringLoop(_, _, _, _, _)
encodeStringLoop(wr, s, escapeHTML, i, start) ==
  IF i > Len(s) THEN Flush(wr, s, start, Len(s) + 1)
  ELSE IF s[i] < 128 THEN
    IF htmlSafeSet(s[i]) \/ (~escapeHTML /\ safeSet(s[i]))
    THEN encodeStringLoop(wr, s, escapeHTML, i + 1, start)
    ELSE encodeStringLoop(
           EscapeByte(WriteIgnore(Flush(wr, s, start, i), <<92>>), s[i]),
           s, escapeHTML, i + 1, i + 1)
  ELSE LET r == DecodeRuneInString(s, i)
       IN IF r.c = RuneError /\ r.size = 1 THEN
            encodeStringLoop(
              WriteIgnore(Flush(wr, s, start, i), <<92, 117, 102, 102, 102, 100>>),
              s, escapeHTML, i + r.size, i + r.size)
          ELSE IF r.c = 8232 \/ r.c = 8233 THEN
            encodeStringLoop(
              WriteIgnore(WriteIgnore(Flush(wr, s, start, i),
                                      <<92, 117, 50, 48, 50>>),
                          <<hex(r.c % 16)>>),
              s, escapeHTML, i + r.size, i + r.size)
          ELSE encodeStringLoop(wr, s, escapeHTML, i + r.size, start)

\* encodeString(w, s, escapeHTML): only the closing quote's error is returned
encodeString(wr, s, escapeHTML) ==
  Write(encodeStringLoop(WriteIgnore(wr, <<34>>), s, escapeHTML, 1, 1), <<34>>)

-----------------------------------------------------------------------------
(* Numbers: strconv.AppendInt / AppendBool / AppendFloat and               *)
(* floatEncoder.encode                                                     *)

\* the decimal digits of n >= 0, as bytes
RECURSIVE Digits(_)
Digits(n) == IF n < 10 THEN <<48 + n>> ELSE Digits(n \div 10) \o <<48 + (n % 10)>>

\* strconv.AppendInt(bb, v, 10) and AppendUint
AppendInt(i) == IF i < 0 THEN <<45>> \o Digits(-i) ELSE Digits(i)

\* strconv.AppendBool
AppendBool(b) == IF b THEN <<116, 114, 117, 101>> ELSE <<102, 97, 108, 115, 101>>

FNaN == [k |-> "nan", neg |-> FALSE, mant |-> 0, exp |-> 0]
FInf(neg) == [k |-> "inf", neg |-> neg, mant |-> 0, exp |-> 0]
Fin(neg, mant, exp) == [k |-> "fin", neg |-> neg, mant |-> mant, exp |-> exp]

\* position of the decimal point: v = 0.d1d2..dn * 10^DecPoint(f)
DecPoint(f) == Len(Digits(f.mant)) + f.exp

\* math.Abs(f) outside [1e-6, 1e21): the 'e' format is used
UseExp(f) == f.mant # 0 /\ (DecPoint(f) - 1 < -6 \/ DecPoint(f) - 1 >= 21)

\* strconv.AppendFloat(b, f, fmt, -1, bits): the shortest digits that round-trip
AppendFloat(f, fmt) ==
  LET d    == Digits(f.mant)
      nd   == Len(d)
      dp   == DecPoint(f)
      sign == IF f.neg THEN <<45>> ELSE <<>>
      e10  == dp - 1
      ee   == IF e10 < 0 THEN -e10 ELSE e10
  IN IF fmt = "f" THEN
       sign \o
       (IF f.mant = 0 THEN <<48>>
        ELSE IF dp <= 0 THEN <<48, 46>> \o Repeat(48, -dp) \o d
        ELSE IF dp >= nd THEN d \o Repeat(48, dp - nd)
        ELSE Slice(d, 1, dp) \o <<46>> \o Slice(d, dp + 1, nd))
     ELSE
       sign \o <<Head(d)>> \o (IF nd > 1 THEN <<46>> \o Tail(d) ELSE <<>>)
       \o <<101>> \o (IF e10 < 0 THEN <<45>> ELSE <<43>>)
       \o (IF ee < 10 THEN <<48>> ELSE <<>>) \o Digits(ee)

\* "clean up e-09 to e-9"
CleanExp(b) ==
  LET n == Len(b)
  IN IF n >= 4 /\ b[n - 3] = 101 /\ b[n - 2] = 45 /\ b[n - 1] = 48
     THEN Slice(b, 1, n - 2) \o <<b[n]>>
     ELSE b

\* floatEncoder.encode (float32Encoder and float64Encoder): [w, err]
floatEncoder(wr, f) ==
  IF f.k # "fin" THEN [w |-> wr, err |-> "NaN"]
  ELSE LET fmt == IF UseExp(f) THEN "e" ELSE "f"
           b   == AppendFloat(f, fmt)
       IN Write(wr, IF fmt = "e" THEN CleanExp(b) ELSE b)

-----------------------------------------------------------------------------
(* Go's map iteration order is unspecified: every range over a map takes   *)
(* its order from the next entry of rnd, a sequence of choices.            *)

\* the r-th permutation of the keys K
RECURSIVE KeyOrder(_, _)
KeyOrder(K, r) ==
  IF K = {} THEN <<>>
  ELSE LET s == SortedKeys(K)
           k == s[(r % Len(s)) + 1]
       IN <<k>> \o KeyOrder(K \ {k}, r \div Len(s))

NextChoice(rnd) == IF rnd = <<>> THEN 0 ELSE Head(rnd)
RestChoices(rnd) == IF rnd = <<>> THEN <<>> ELSE Tail(rnd)

-----------------------------------------------------------------------------
(* marshalTo and marshal                                                   *)

NullBytes == <<110, 117, 108, 108>>

\* the final "_, err = w.Write(bb); return err"
WriteBB(wr, bb, rnd) ==
  LET r == Write(wr, bb) IN [w |-> r.w, err |-> r.err, rnd |-> rnd]

\* a separator written before every member, the first one too
SeparatorAlways(wr, i) == WriteIgnore(wr, <<44>>)

\* "if !first { w.Write(`,`) }; first = false" before member i
Separator(wr, i) == IF i > 1 THEN WriteIgnore(wr, <<44>>) ELSE wr

RECURSIVE marshalTo(_, _, _)
RECURSIVE marshalList(_, _, _, _)
RECURSIVE marshalMap(_, _, _, _, _)

\* for i := range v: the separator's Write is unchecked, the element's error returns
marshalList(wr, v, i, rnd) ==
  IF i > Len(v) THEN WriteBB(wr, <<93>>, rnd)
  ELSE LET w1 == Separator(wr, i)
           r  == marshalTo(w1, v[i], rnd)
       IN IF r.err # "" THEN r ELSE marshalList(r.w, v, i + 1, r.rnd)

\* for k, el := range v, in the order ks: ',' key and ':' are unchecked writes
marshalMap(wr, m, ks, i, rnd) ==
  IF i > Len(ks) THEN WriteBB(wr, <<125>>, rnd)
  ELSE LET w1 == Separator(wr, i)
           w2k == encodeString(w1, ks[i], FALSE).w
           w3  == WriteIgnore(w2k, <<58>>)
           r   == marshalTo(w3, m[ks[i]], rnd)
       IN IF r.err # "" THEN r ELSE marshalMap(r.w, m, ks, i + 1, r.rnd)

marshalTo(wr, v, rnd) ==
  CASE v.t = "nil"     -> WriteBB(wr, NullBytes, rnd)
    [] v.t = "bool"    -> WriteBB(wr, AppendBool(v.b), rnd)
    [] v.t = "float64" -> LET r == floatEncoder(wr, v.f)
                          IN [w |-> r.w, err |-> r.err, rnd |-> rnd]
    [] v.t = "float32" -> LET r == floatEncoder(wr, v.f)
                          IN [w |-> r.w, err |-> r.err, rnd |-> rnd]
    [] v.t = "int"     -> WriteBB(wr, AppendInt(v.i), rnd)
    [] v.t = "string"  -> LET r == encodeString(wr, v.s, FALSE)
                          IN [w |-> r.w, err |-> r.err, rnd |-> rnd]
    [] v.t = "list"    -> IF v.isnil THEN WriteBB(wr, NullBytes, rnd)
                          ELSE marshalList(WriteIgnore(wr, <<91>>), v.e, 1, rnd)
    [] v.t = "map"     -> IF v.isnil THEN WriteBB(wr, NullBytes, rnd)
                          ELSE marshalMap(WriteIgnore(wr, <<123>>), v.m,
                                          KeyOrder(DOMAIN v.m, NextChoice(rnd)),
                                          1, RestChoices(rnd))
    [] OTHER           -> [w |-> wr, err |-> "unknown type", rnd |-> rnd]

\* marshal(v): marshalTo into a bytes.Buffer, whose Write never fails
marshal(v, rnd) ==
  LET r == marshalTo(NewWriter(0), v, rnd) IN [buf |-> r.w.buf, err |-> r.err]

-----------------------------------------------------------------------------
(* Marshal: the wrapper over encoding/json.  json.Marshal renders the same *)
(* closed set with its own conventions: strings are HTML-escaped, map keys *)
(* are sorted, and a Marshaler's bytes (RawMessage) are checked and        *)
(* compacted.                                                              *)

IsSpace(b) == b = 32 \/ b = 9 \/ b = 10 \/ b = 13
IsDigit(b) == b >= 48 /\ b <= 57

\* RawMessage.MarshalJSON
MarshalJSON(v) == IF v.isnil THEN NullBytes ELSE v.r

\* json's compact() on a Marshaler's output, for payloads without string
\* literals: insignificant whitespace is dropped
jsonCompact(b) == SelectSeq(b, LAMBDA c : ~IsSpace(c))

\* json's validity check of a Marshaler's output, decided for the payloads
\* the model draws: null, an unsigned integer numeral, or an empty array
jsonValid(b) ==
  LET c == jsonCompact(b)
  IN \/ c = NullBytes
     \/ c = <<91, 93>>
     \/ (c # <<>> /\ \A i \in 1..Len(c) : IsDigit(c[i])
         /\ \A j \in 1..Len(b) : ~IsSpace(b[j]))

RECURSIVE jsonEncode(_)
RECURSIVE jsonList(_, _)
RECURSIVE jsonMap(_, _, _)

jsonList(v, i) ==
  IF i > Len(v) THEN [buf |-> <<>>, err |-> ""]
  ELSE LET r    == jsonEncode(v[i])
           rest == jsonList(v, i + 1)
       IN IF r.err # "" THEN r
          ELSE IF rest.err # "" THEN rest
          ELSE [buf |-> (IF i > 1 THEN <<44>> ELSE <<>>) \o r.buf \o rest.buf,
                err |-> ""]

jsonMap(m, ks, i) ==
  IF i > Len(ks) THEN [buf |-> <<>>, err |-> ""]
  ELSE LET r    == jsonEncode(m[ks[i]])
           rest == jsonMap(m, ks, i + 1)
       IN IF r.err # "" THEN r
          ELSE IF rest.err # "" THEN rest
          ELSE [buf |-> (IF i > 1 THEN <<44>> ELSE <<>>)
                        \o encodeString(NewWriter(0), ks[i], TRUE).w.buf
                        \o <<58>> \o r.buf \o rest.buf,
                err |-> ""]

jsonEncode(v) ==
  CASE v.t = "nil"     -> [buf |-> NullBytes, err |-> ""]
    [] v.t = "bool"    -> [buf |-> AppendBool(v.b), err |-> ""]
    [] v.t \in {"float64", "float32"} ->
         LET r == floatEncoder(NewWriter(0), v.f)
         IN [buf |-> r.w.buf, err |-> r.err]
    [] v.t = "int"     -> [buf |-> AppendInt(v.i), err |-> ""]
    [] v.t = "string"  ->
         [buf |-> encodeString(NewWriter(0), v.s, TRUE).w.buf, err |-> ""]
    [] v.t = "list"    ->
         IF v.isnil THEN [buf |-> NullBytes, err |-> ""]
         ELSE LET r == jsonList(v.e, 1)
              IN IF r.err # "" THEN r
                 ELSE [buf |-> <<91>> \o r.buf \o <<93>>, err |-> ""]
    [] v.t = "map"     ->
         IF v.isnil THEN [buf |-> NullBytes, err |-> ""]
         ELSE LET r == jsonMap(v.m, SortedKeys(DOMAIN v.m), 1)
              IN IF r.err # "" THEN r
                 ELSE [buf |-> <<123>> \o r.buf \o <<125>>, err |-> ""]
    [] v.t = "raw"     ->
         IF jsonValid(MarshalJSON(v))
         THEN [buf |-> jsonCompact(MarshalJSON(v)), err |-> ""]
         ELSE [buf |-> <<>>, err |-> "marshaler"]
    [] OTHER           -> [buf |-> <<>>, err |-> "unsupported type"]

\* Marshal(v): json.Marshal returns no bytes with an error
Marshal(v) ==
  LET r == jsonEncode(v)
  IN IF r.err # "" THEN [buf |-> <<>>, err |-> r.err] ELSE r

-----------------------------------------------------------------------------
(* The tokenizer: readToken on the shared cursor (data d, 1-based pos).    *)
(* A token is one of                                                       *)
(*   [k |-> "null"]  [k |-> "bool", b]  [k |-> "Number", text]             *)
(*   [k |-> "string", s]  [k |-> "Delim", d]   d one of [ ] { } : ,        *)
(* The result is [tok, pos, err]: err is "" or "EOF" or "syntax".          *)

TNull == [k |-> "null"]
TBool(b) == [k |-> "bool", b |-> b]
TNumber(text) == [k |-> "Number", text |-> text]
TString(s) == [k |-> "string", s |-> s]
TDelim(d) == [k |-> "Delim", d |-> d]

IsDelimByte(b) == b \in {91, 93, 123, 125, 58, 44}

\* tokDelim, _ := tok.(Delim); tokDelim == Delim(d)
IsDelim(tok, d) == tok.k = "Delim" /\ tok.d = d

TokOk(tok, pos) == [tok |-> tok, pos |-> pos, err |-> ""]
TokErr(e, pos) == [tok |-> TNull, pos |-> pos, err |-> e]

RECURSIVE SkipSpace(_, _)
SkipSpace(d, pos) ==
  IF pos <= Len(d) /\ IsSpace(d[pos]) THEN SkipSpace(d, pos + 1) ELSE pos

RECURSIVE ScanDigits(_, _)
ScanDigits(d, pos) ==
  IF pos <= Len(d) /\ IsDigit(d[pos]) THEN ScanDigits(d, pos + 1) ELSE pos

At(d, pos) == IF pos <= Len(d) THEN d[pos] ELSE -1

\* a literal keyword at pos
readKeyword(d, pos, word, tok) ==
  IF Slice(d, pos, pos + Len(word) - 1) = word /\ pos + Len(word) - 1 <= Len(d)
  THEN TokOk(tok, pos + Len(word))
  ELSE TokErr("syntax", pos)

\* a numeral -?digit+(.digit+)?([eE][+-]?digit+)? ; its text is kept unparsed
readNumber(d, pos) ==
  LET q0 == IF At(d, pos) = 45 THEN pos + 1 ELSE pos
      q1 == ScanDigits(d, q0)
      q2 == IF At(d, q1) = 46 THEN ScanDigits(d, q1 + 1) ELSE q1
      e0 == IF At(d, q2) \in {101, 69}
            THEN (IF At(d, q2 + 1) \in {43, 45} THEN q2 + 2 ELSE q2 + 1)
            ELSE q2
      q3 == IF e0 > q2 THEN ScanDigits(d, e0) ELSE q2
  IN IF q1 = q0 \/ (At(d, q1) = 46 /\ q2 = q1 + 1) \/ (e0 > q2 /\ q3 = e0)
     THEN TokErr("syntax", pos)
     ELSE TokOk(TNumber(Slice(d, pos, q3 - 1)), q3)

\* the value of a hex digit, -1 when b is none
HexVal(b) ==
  IF IsDigit(b) THEN b - 48
  ELSE IF b >= 97 /\ b <= 102 THEN b - 87
  ELSE IF b >= 65 /\ b <= 70 THEN b - 55
  ELSE -1

\* the four hex digits at pos as a number, -1 when they are not four hex digits
Hex4(d, pos) ==
  IF pos + 3 > Len(d) \/ \E j \in 0..3 : HexVal(d[pos + j]) < 0 THEN -1
  ELSE HexVal(d[pos]) * 4096 + HexVal(d[pos + 1]) * 256
       + HexVal(d[pos + 2]) * 16 + HexVal(d[pos + 3])

\* the UTF-8 encoding of code point c
EncodeRune(c) ==
  IF c < 128 THEN <<c>>
  ELSE IF c < 2048 THEN <<192 + (c \div 64), 128 + (c % 64)>>
  ELSE IF c < 65536 THEN
    <<224 + (c \div 4096), 128 + ((c \div 64) % 64), 128 + (c % 64)>>
  ELSE <<240 + (c \div 262144), 128 + ((c \div 4096) % 64),
         128 + ((c \div 64) % 64), 128 + (c % 64)>>

\* the byte a one-letter escape stands for, -1 when the escape is invalid
SimpleEscape(b) ==
  CASE b = 34 -> 34 [] b = 92 -> 92 [] b = 47 -> 47 [] b = 98 -> 8
    [] b = 102 -> 12 [] b = 110 -> 10 [] b = 114 -> 13 [] b = 116 -> 9
    [] OTHER -> -1

\* the body of a string literal from pos (after the opening quote)
RECURSIVE readString(_, _, _)
readString(d, pos, acc) ==
  IF pos > Len(d) THEN TokErr("syntax", pos)
  ELSE IF d[pos] = 34 THEN TokOk(TString(acc), pos + 1)
  ELSE IF d[pos] # 92 THEN readString(d, pos + 1, acc \o <<d[pos]>>)
  ELSE IF At(d, pos + 1) = 117 THEN
    LET c  == Hex4(d, pos + 2)
        lo == IF At(d, pos + 6) = 92 /\ At(d, pos + 7) = 117
              THEN Hex4(d, pos + 8) ELSE -1
    IN IF c < 0 THEN TokErr("syntax", pos)
       ELSE IF c >= 55296 /\ c <= 56319 THEN
         IF lo >= 56320 /\ lo <= 57343
         THEN readString(d, pos + 12,
                acc \o EncodeRune(65536 + (c - 55296) * 1024 + (lo - 56320)))
         ELSE TokErr("syntax", pos)
       ELSE IF c >= 56320 /\ c <= 57343 THEN TokErr("syntax", pos)
       ELSE readString(d, pos + 6, acc \o EncodeRune(c))
  ELSE IF SimpleEscape(At(d, pos + 1)) < 0 THEN TokErr("syntax", pos)
  ELSE readString(d, pos + 2, acc \o <<SimpleEscape(d[pos + 1])>>)

readToken(d, pos0) ==
  LET pos == SkipSpace(d, pos0)
      b   == At(d, pos)
  IN IF pos > Len(d) THEN TokErr("EOF", pos)
     ELSE IF IsDelimByte(b) THEN TokOk(TDelim(b), pos + 1)
     ELSE IF b = 110 THEN readKeyword(d, pos, NullBytes, TNull)
     ELSE IF b = 116 THEN readKeyword(d, pos, AppendBool(TRUE), TBool(TRUE))
     ELSE IF b = 102 THEN readKeyword(d, pos, AppendBool(FALSE), TBool(FALSE))
     ELSE IF b = 34 THEN readString(d, pos + 1, <<>>)
     ELSE IF b = 45 \/ IsDigit(b) THEN readNumber(d, pos)
     ELSE TokErr("syntax", pos)

-----------------------------------------------------------------------------
(* Number.Float64: strconv.ParseFloat of a numeral's text                  *)

RECURSIVE DigitsVal(_, _)
DigitsVal(ds, acc) ==
  IF ds = <<>> THEN acc ELSE DigitsVal(Tail(ds), acc * 10 + (Head(ds) - 48))

\* the digits ds without their trailing zeros
RECURSIVE StripZeros(_)
StripZeros(ds) ==
  IF ds # <<>> /\ ds[Len(ds)] = 48 THEN StripZeros(Slice(ds, 1, Len(ds) - 1))
  ELSE ds

\* digits * 10^exp with the trailing zeros of the digits moved into exp
Normalize(neg, ds, exp) ==
  LET sd == StripZeros(ds)
  IN IF sd = <<>> THEN Fin(neg, 0, 0)
     ELSE Fin(neg, DigitsVal(sd, 0), exp + Len(ds) - Len(sd))

\* [f, err]: a magnitude of 1e309 or more is a range error
Float64(text) ==
  LET neg  == Head(text) = 45
      q0   == IF neg THEN 2 ELSE 1
      q1   == ScanDigits(text, q0)
      q2   == IF At(text, q1) = 46 THEN ScanDigits(text, q1 + 1) ELSE q1
      frac == IF q2 > q1 THEN Slice(text, q1 + 1, q2 - 1) ELSE <<>>
      eneg == At(text, q2 + 1) = 45
      e0   == IF q2 > Len(text) THEN q2
              ELSE IF At(text, q2 + 1) \in {43, 45} THEN q2 + 2 ELSE q2 + 1
      ev   == IF e0 > Len(text) THEN 0
              ELSE DigitsVal(Slice(text, e0, Len(text)), 0)
      f    == Normalize(neg, Slice(text, q0, q1 - 1) \o frac,
                        (IF eneg THEN -ev ELSE ev) - Len(frac))
  IN IF f.mant # 0 /\ DecPoint(f) - 1 > 308
     THEN [f |-> FInf(neg), err |-> "range"]
     ELSE [f |-> f, err |-> ""]

-----------------------------------------------------------------------------
(* The decoder.  A destination is the pointer type handed in:              *)
(*   "iface" *interface{}   "bool" *bool   "float64" *float64              *)
(*   "string" *string   "list" *[]interface{}   "map" *map[string]...      *)
(*   "other" any other type                                                *)
(* An outcome is [st, msg, set, val, pos]: st is "ok" (nil returned),      *)
(* "err" (an error returned) or "panic"; set tells whether *v was          *)
(* assigned, and val is the value assigned.                                *)

Nil == [t |-> "nil"]
Bool(b) == [t |-> "bool", b |-> b]
F64(f) == [t |-> "float64", f |-> f]
F32(f) == [t |-> "float32", f |-> f]
IntV(i) == [t |-> "int", i |-> i]
Str(s) == [t |-> "string", s |-> s]
List(e) == [t |-> "list", isnil |-> FALSE, e |-> e]
NilList == [t |-> "list", isnil |-> TRUE, e |-> <<>>]
Map(m) == [t |-> "map", isnil |-> FALSE, m |-> m]
NilMap == [t |-> "map", isnil |-> TRUE, m |-> <<>>]
Raw(r) == [t |-> "raw", isnil |-> FALSE, r |-> r]
NilRaw == [t |-> "raw", isnil |-> TRUE, r |-> <<>>]
Other == [t |-> "other"]

Assigned(val, pos) ==
  [st |-> "ok", msg |-> "", set |-> TRUE, val |-> val, pos |-> pos]
Failed(msg, pos) ==
  [st |-> "err", msg |-> msg, set |-> FALSE, val |-> Nil, pos |-> pos]
Panicked(msg, pos) ==
  [st |-> "panic", msg |-> msg, set |-> FALSE, val |-> Nil, pos |-> pos]

\* newDefaultForToken: the pointer type allocated for a token, or a panic
newDefaultForToken(tok) ==
  CASE tok.k = "null"   -> "iface"
    [] tok.k = "bool"   -> "bool"
    [] tok.k = "Number" -> "float64"
    [] tok.k = "string" -> "string"
    [] IsDelim(tok, 91)  -> "list"
    [] IsDelim(tok, 123) -> "map"
    [] OTHER -> "PANIC"

\* deref: the value behind the pointer; a non-nil *interface{} panics
deref(kind, val) ==
  IF kind = "iface" /\ val # Nil
  THEN [panic |-> TRUE, v |-> Nil]
  ELSE [panic |-> FALSE, v |-> val]

\* mapV[k] = v
MapPut(m, k, v) == [x \in (DOMAIN m) \cup {k} |-> IF x = k THEN v ELSE m[x]]

\* an element's failure, as the enclosing call returns it: *v stays unassigned
Propagate(r) == [r EXCEPT !.set = FALSE, !.val = Nil]

\* a loop that stores what it has decoded so far when an element fails
ListFailedPartial(r, sliceV) == [r EXCEPT !.set = TRUE, !.val = List(sliceV)]

\* "if err != nil { return err }" inside the list loop: sliceV is dropped
ListFailed(r, sliceV) == Propagate(r)

\* a decoded element put in front of the others
PrependElem(sliceV, v) == <<v>> \o sliceV

\* sliceV = append(sliceV, deref(elV))
AppendElem(sliceV, v) == Append(sliceV, v)

\* a generic destination that takes any literal token
scanIfaceAny(tok, pos) ==
  IF tok.k # "Delim" THEN Assigned(Nil, pos) ELSE Failed("type", pos)

\* case *interface{}: only a null token is accepted
scanIface(tok, pos) ==
  IF tok.k = "null" THEN Assigned(Nil, pos) ELSE Failed("type", pos)

RECURSIVE unmarshalNext(_, _, _, _)
RECURSIVE unmarshalList(_, _, _)
RECURSIVE unmarshalMap(_, _, _)

\* the for loop of the *[]interface{} case
unmarshalList(d, pos, sliceV) ==
  LET nt == readToken(d, pos)
  IN IF nt.err # "" THEN Failed(nt.err, nt.pos)
     ELSE IF IsDelim(nt.tok, 93) THEN Assigned(List(sliceV), nt.pos)
     ELSE LET kind == newDefaultForToken(nt.tok)
          IN IF kind = "PANIC" THEN Panicked("newDefaultForToken", nt.pos)
             ELSE LET r == unmarshalNext(d, nt.pos, nt.tok, kind)
                  IN IF r.st # "ok" THEN ListFailed(r, sliceV)
                     ELSE IF deref(kind, r.val).panic
                     THEN Panicked("deref", r.pos)
                     ELSE unmarshalList(d, r.pos,
                            AppendElem(sliceV, deref(kind, r.val).v))

\* the for loop of the *map[string]interface{} case
unmarshalMap(d, pos, mapV) ==
  LET kt == readToken(d, pos)
  IN IF kt.err # "" THEN Failed(kt.err, kt.pos)
     ELSE IF IsDelim(kt.tok, 125) THEN Assigned(Map(mapV), kt.pos)
     ELSE LET nt == readToken(d, kt.pos)
          IN IF nt.err # "" THEN Failed(nt.err, nt.pos)
             ELSE LET kind == newDefaultForToken(nt.tok)
                  IN IF kind = "PANIC"
                     THEN Panicked("newDefaultForToken", nt.pos)
                     ELSE LET r == unmarshalNext(d, nt.pos, nt.tok, kind)
                          IN IF r.st # "ok" THEN Propagate(r)
                             ELSE IF kt.tok.k # "string"
                             THEN Failed("non-string key", r.pos)
                             ELSE IF deref(kind, r.val).panic
                             THEN Panicked("deref", r.pos)
                             ELSE unmarshalMap(d, r.pos,
                                    MapPut(mapV, kt.tok.s, deref(kind, r.val).v))

unmarshalNext(d, pos, tok, kind) ==
  CASE kind = "iface" -> scanIface(tok, pos)
    [] kind = "bool" ->
         IF tok.k = "bool" THEN Assigned(Bool(tok.b), pos)
         ELSE Failed("type", pos)
    [] kind = "float64" ->
         IF tok.k = "Number"
         THEN IF Float64(tok.text).err # ""
              THEN Failed(Float64(tok.text).err, pos)
              ELSE Assigned(F64(Float64(tok.text).f), pos)
         ELSE Failed("type", pos)
    [] kind = "string" ->
         IF tok.k = "string" THEN Assigned(Str(tok.s), pos)
         ELSE Failed("type", pos)
    [] kind = "list" ->
         IF ~IsDelim(tok, 91) THEN Failed("type", pos)
         ELSE unmarshalList(d, pos, <<>>)
    [] kind = "map" ->
         IF ~IsDelim(tok, 123) THEN Failed("type", pos)
         ELSE unmarshalMap(d, pos, <<>>)
    [] OTHER -> Failed("unknown type", pos)

\* unmarshalFrom: read the first token, then dispatch on the destination
unmarshalFrom(d, kind) ==
  LET t == readToken(d, 1)
  IN IF t.err # "" THEN Failed(t.err, t.pos)
     ELSE unmarshalNext(d, t.pos, t.tok, kind)

\* unmarshal(data, v)
unmarshal(d, kind) == unmarshalFrom(d, kind)

-----------------------------------------------------------------------------
(* The inputs the model draws                                              *)

\* U+2028, U+2029, U+00E9, U+FFFD and U+1F600 in UTF-8
LineSep == <<226, 128, 168>>
ParaSep == <<226, 128, 169>>
EAcute == <<195, 169>>
Replacement == <<239, 191, 189>>
Grin == <<240, 159, 152, 128>>

\* strings for encodeString: every single byte, and runs that mix plain
\* bytes, escapes, multi-byte runes and invalid UTF-8
EscStrings ==
  {<<b>> : b \in 0..255} \cup
  { <<>>, <<97, 98>>, LineSep, ParaSep, EAcute, Replacement, Grin,
    <<226, 128>>, <<97, 60, 98>>, <<97, 10, 98>>, <<97>> \o LineSep \o <<98>>,
    <<97, 255, 98>>, <<34, 92>>, <<237, 160, 128>>, <<60, 62, 38>>,
    EAcute \o <<9>> \o EAcute, <<128, 97>> }

Floats ==
  { Fin(FALSE, 0, 0), Fin(FALSE, 1, 0), Fin(TRUE, 2, 0), Fin(FALSE, 15, -1),
    Fin(FALSE, 123, 0), Fin(FALSE, 1, 21), Fin(FALSE, 1, 20), Fin(FALSE, 1, -6),
    Fin(FALSE, 1, -7), Fin(TRUE, 12, -10), Fin(FALSE, 1, -10), Fin(FALSE, 5, 300),
    FNaN, FInf(FALSE) }

Scalars ==
  {Nil, Bool(TRUE), Bool(FALSE), Other, IntV(0), IntV(-7), IntV(42),
   F32(Fin(FALSE, 15, -1)), NilRaw, Raw(<<>>), Raw(<<55>>), Raw(<<91, 32, 93>>),
   Raw(<<93>>)}
  \cup {F64(f) : f \in Floats}
  \cup {Str(s) : s \in EscStrings}

Keys == {<<97>>, <<98>>}

\* the elements of the containers drawn
Elems ==
  {Nil, Bool(TRUE), F64(Fin(FALSE, 1, 0)), Str(<<97, 60>>), F64(FNaN),
   Raw(<<55>>), Other}

ListsOf(E) == UNION {[1..n -> E] : n \in 0..MaxLen}
MapsOf(E) == UNION {[K -> E] : K \in SUBSET Keys}

\* containers nested inside containers
Inner ==
  {NilList, NilMap, List(<<>>), List(<<Bool(TRUE)>>), Map(<<>>),
   Map([k \in {<<97>>} |-> F64(Fin(FALSE, 1, 0))])}

Values ==
  Scalars
  \cup {NilList, NilMap}
  \cup {List(e) : e \in ListsOf(Elems)}
  \cup {Map(m) : m \in MapsOf(Elems)}
  \cup {List(e) : e \in ListsOf(Inner \cup {Nil, Bool(FALSE)})}
  \cup {Map(m) : m \in MapsOf(Inner \cup {Nil, Bool(FALSE)})}

\* the choices of map iteration order a call may meet
Orders == [1..3 -> 0..1]

\* whether v is built only from the types in ts
RECURSIVE BuiltFrom(_, _)
BuiltFrom(v, ts) ==
  /\ v.t \in ts
  /\ v.t = "list" => \A i \in 1..Len(v.e) : BuiltFrom(v.e[i], ts)
  /\ v.t = "map" => \A k \in DOMAIN v.m : BuiltFrom(v.m[k], ts)

ClosedSet == {"nil", "bool", "float64", "float32", "int", "string", "list", "map", "raw"}
RoundTripSet == {"nil", "bool", "float64", "string", "list", "map"}

\* the destination of v's shape
ShapeOf(v) == IF v.t = "nil" THEN "iface" ELSE v.t

DstKinds == {"iface", "bool", "float64", "string", "list", "map", "other"}

\* what a destination holds before the call
Prior(kind) ==
  CASE kind = "iface"   -> Str(<<111>>)
    [] kind = "bool"    -> Bool(FALSE)
    [] kind = "float64" -> F64(Fin(FALSE, 7, 0))
    [] kind = "string"  -> Str(<<111>>)
    [] kind = "list"    -> List(<<Str(<<111>>)>>)
    [] kind = "map"     -> Map([k \in {<<111>>} |-> Nil])
    [] OTHER            -> Other

\* the pieces decoder inputs are built from
Lexemes ==
  { <<91>>, <<93>>, <<123>>, <<125>>, <<44>>, <<58>>, AppendBool(TRUE),
    NullBytes, <<34, 97, 34>>, <<49>>, <<49, 101, 57, 57, 57>> }

\* longer documents: well-formed JSON, JSON without separators, broken JSON
Samples ==
  { <<91>> \o AppendBool(TRUE) \o <<34, 97, 34>> \o NullBytes \o <<32, 49, 91, 93, 123, 125, 93>>,
    <<91>> \o AppendBool(TRUE) \o <<44, 34, 97, 34, 93>>,
    <<123, 34, 97, 34, 58, 49, 125>>,
    <<123, 34, 97, 34, 49, 34, 98, 34, 91>> \o AppendBool(FALSE) \o <<93, 34, 97, 34>> \o NullBytes \o <<125>>,
    <<91, 49, 32, 50, 46, 53, 32, 91, 34, 97, 34, 32, 49, 101, 57, 57, 57, 93, 93>>,
    <<91, 91, 49, 93, 91, 34, 92, 117, 48, 48, 101, 57, 34, 93, 32, 125, 93>>,
    <<123, 34, 97, 34, 123, 34, 98, 34, 91, 93, 125, 125>>,
    <<123, 49, 49, 125>>,
    <<91, 49, 32, 34, 97>>,
    <<32, 45, 49, 46, 53, 101, 45, 55, 32>>,
    <<34, 92, 117, 100, 56, 51, 100, 92, 117, 100, 101, 48, 48, 34>>,
    <<34, 92, 117, 100, 56, 51, 100, 34>>,
    <<91, 49, 46, 93>>,
    <<91>> \o AppendBool(TRUE) \o <<32, 34, 97, 34, 32>> \o NullBytes \o <<32, 49, 93>>,
    <<123, 34, 97, 34, 49, 34, 98, 34>> \o AppendBool(TRUE) \o <<34, 97, 34>> \o NullBytes \o <<125>> }

DecInputs ==
  Samples \cup UNION {{Concat(ls) : ls \in [1..n -> Lexemes]} : n \in 0..MaxLexemes}

-----------------------------------------------------------------------------
(* The state machine: a value or a document is drawn, then one call runs   *)

NoWriter == NewWriter(0)
NoStd == [buf |-> <<>>, err |-> ""]
NoArg == [escapeHTML |-> FALSE]
NoRes == [st |-> "none", msg |-> "", set |-> FALSE, val |-> Nil, pos |-> 0]

Init ==
  /\ op = "init"
  /\ vin \in Values
  /\ arg = NoArg
  /\ w = NoWriter
  /\ err = ""
  /\ std = NoStd
  /\ data = <<>>
  /\ dst = "iface"
  /\ dest = Prior("iface")
  /\ res = NoRes

\* marshalTo(w, vin) on a writer whose call failAt fails (0: none fails)
MarshalTo ==
  /\ op = "init"
  /\ \E failAt \in 0..MaxFailAt, rnd \in Orders :
       LET r == marshalTo(NewWriter(failAt), vin, rnd)
       IN /\ w' = r.w
          /\ err' = r.err
  /\ op' = "marshalTo"
  /\ UNCHANGED <<vin, arg, std, data, dst, dest, res>>

\* the two backends on the same value: marshal(vin) and Marshal(vin)
Backends ==
  /\ op = "init"
  /\ BuiltFrom(vin, ClosedSet)
  /\ \E rnd \in Orders :
       LET r == marshal(vin, rnd)
       IN /\ w' = [NoWriter EXCEPT !.buf = r.buf]
          /\ err' = r.err
  /\ std' = Marshal(vin)
  /\ op' = "backends"
  /\ UNCHANGED <<vin, arg, data, dst, dest, res>>

\* encodeString(w, s, escapeHTML) into a buffer
EncodeString ==
  /\ op = "init"
  /\ vin.t = "string"
  /\ \E esc \in BOOLEAN :
       LET r == encodeString(NewWriter(0), vin.s, esc)
       IN /\ w' = r.w
          /\ err' = r.err
          /\ arg' = [escapeHTML |-> esc]
  /\ op' = "encodeString"
  /\ UNCHANGED <<vin, std, data, dst, dest, res>>

\* the round trip's first call: data, err = marshal(vin), for a value built
\* from nil, bool, float64, string, []interface{} and map[string]interface{}
RoundTripMarshal ==
  /\ op = "init"
  /\ BuiltFrom(vin, RoundTripSet)
  /\ \E rnd \in Orders :
       LET m == marshal(vin, rnd)
       IN /\ data' = m.buf
          /\ err' = m.err
  /\ dst' = ShapeOf(vin)
  /\ dest' = Prior(ShapeOf(vin))
  /\ op' = "marshaled"
  /\ UNCHANGED <<vin, arg, w, std, res>>

\* the round trip's second call: unmarshal(data, &dest), dest of vin's shape
RoundTripUnmarshal ==
  /\ op = "marshaled"
  /\ err = ""
  /\ res' = unmarshal(data, dst)
  /\ dest' = IF res'.set THEN res'.val ELSE dest
  /\ op' = "roundtrip"
  /\ UNCHANGED <<vin, arg, w, err, std, data, dst>>

Next ==
  MarshalTo \/ Backends \/ EncodeString \/ RoundTripMarshal \/ RoundTripUnmarshal

Spec == Init /\ [][Next]_vars

\* the decoder on arbitrary documents
InitDec ==
  /\ op = "init"
  /\ vin = Nil
  /\ arg = NoArg
  /\ w = NoWriter
  /\ err = ""
  /\ std = NoStd
  /\ data \in DecInputs
  /\ dst \in DstKinds
  /\ dest = Prior(dst)
  /\ res = NoRes

\* unmarshal(data, &dest)
Unmarshal ==
  /\ op = "init"
  /\ res' = unmarshal(data, dst)
  /\ dest' = IF res'.set THEN res'.val ELSE dest
  /\ op' = "unmarshal"
  /\ UNCHANGED <<vin, arg, w, err, std, data, dst>>

NextDec == Unmarshal

SpecDec == InitDec /\ [][NextDec]_vars

-----------------------------------------------------------------------------
(* Properties of the encoder, checked under Spec                           *)

Quote == <<34>>

\* every ordering of the set K, each member exactly once
Perms(K) ==
  {p \in [1..Cardinality(K) -> K] : \A i, j \in DOMAIN p : p[i] = p[j] => i = j}

HexDigits == <<48, 49, 50, 51, 52, 53, 54, 55, 56, 57, 97, 98, 99, 100, 101, 102>>

\* what the escaping rules say about the character that starts at s[i]:
\* [out: its escaped form, size: the bytes of s it covers]
EscapedChar(s, i, escapeHTML) ==
  LET b == s[i]
      r == DecodeRuneInString(s, i)
  IN IF b = 9 THEN [out |-> <<92, 116>>, size |-> 1]
     ELSE IF b = 10 THEN [out |-> <<92, 110>>, size |-> 1]
     ELSE IF b = 13 THEN [out |-> <<92, 114>>, size |-> 1]
     ELSE IF b < 32 THEN
       [out |-> <<92, 117, 48, 48, HexDigits[(b \div 16) + 1], HexDigits[(b % 16) + 1]>>,
        size |-> 1]
     ELSE IF b = 92 \/ b = 34 THEN [out |-> <<92, b>>, size |-> 1]
     ELSE IF escapeHTML /\ b = 60 THEN [out |-> <<92, 117, 48, 48, 51, 99>>, size |-> 1]
     ELSE IF escapeHTML /\ b = 62 THEN [out |-> <<92, 117, 48, 48, 51, 101>>, size |-> 1]
     ELSE IF escapeHTML /\ b = 38 THEN [out |-> <<92, 117, 48, 48, 50, 54>>, size |-> 1]
     ELSE IF b < 128 THEN [out |-> <<b>>, size |-> 1]
     ELSE IF r.c = RuneError /\ r.size = 1 THEN
       [out |-> <<92, 117, 102, 102, 102, 100>>, size |-> 1]
     ELSE IF r.size = 3 /\ Slice(s, i, i + 2) = LineSep THEN
       [out |-> <<92, 117, 50, 48, 50, 56>>, size |-> 3]
     ELSE IF r.size = 3 /\ Slice(s, i, i + 2) = ParaSep THEN
       [out |-> <<92, 117, 50, 48, 50, 57>>, size |-> 3]
     ELSE [out |-> Slice(s, i, i + r.size - 1), size |-> r.size]

RECURSIVE Escaped(_, _, _)
Escaped(s, i, escapeHTML) ==
  IF i > Len(s) THEN <<>>
  ELSE LET c == EscapedChar(s, i, escapeHTML)
       IN c.out \o Escaped(s, i + c.size, escapeHTML)

\* C9: encodeString(w, s, escapeHTML) writes s between double quotes, with
\* bytes below 0x20 as the short escapes for tab, newline and carriage
\* return or as a u00XX escape in lowercase hex, backslash and double quote
\* behind a backslash, U+2028 and U+2029 as u2028 and u2029 escapes whatever
\* the flag, every invalid UTF-8 byte as the ufffd escape, '<' '>' '&' as
\* u003c u003e u0026 escapes exactly when escapeHTML is set, and every other
\* character unchanged.
C9_StringEscaping ==
  op = "encodeString" =>
    /\ err = ""
    /\ w.buf = Quote \o Escaped(vin.s, 1, arg.escapeHTML) \o Quote

\* "<>&" encoded with escapeHTML set
C9_Witness ==
  /\ op = "encodeString"
  /\ arg.escapeHTML
  /\ vin.s = <<60, 62, 38>>
  /\ w.buf = <<34, 92, 117, 48, 48, 51, 99, 92, 117, 48, 48, 51, 101,
               92, 117, 48, 48, 50, 54, 34>>

\* the outputs marshal can give for v, over the map iteration orders
Encodings(v) == {marshal(v, rnd).buf : rnd \in Orders}

\* the byte strings made of one choice from each set of the sequence sets,
\* joined by sep
RECURSIVE JoinChoices(_, _)
JoinChoices(sets, sep) ==
  IF sets = <<>> THEN {<<>>}
  ELSE IF Len(sets) = 1 THEN sets[1]
  ELSE {a \o sep \o b : a \in sets[1], b \in JoinChoices(Tail(sets), sep)}

\* the members "key":value of map m in the key order ks
Members(m, ks) ==
  [i \in 1..Len(ks) |-> {Quote \o ks[i] \o Quote \o <<58>> \o e : e \in Encodings(m[ks[i]])}]

NoSpace(b) == \A i \in 1..Len(b) : ~IsSpace(b[i])

\* C8: a successful encode writes a non-nil list as '[' + its elements'
\* encodings in order, joined by one ',' + ']', a non-nil map as '{' + its
\* key:value members, each key once, in some order, joined by one ',' + '}',
\* a nil list or nil map as null, and no whitespace.
C8_CanonicalContainers ==
  (op = "marshalTo" /\ w.failAt = 0 /\ err = "" /\ vin.t \in {"list", "map"}) =>
    /\ vin.isnil => w.buf = NullBytes
    /\ (vin.t = "list" /\ ~vin.isnil) =>
         w.buf \in {<<91>> \o j \o <<93>> :
                      j \in JoinChoices([i \in 1..Len(vin.e) |-> Encodings(vin.e[i])], <<44>>)}
    /\ (vin.t = "map" /\ ~vin.isnil) =>
         \E ks \in Perms(DOMAIN vin.m) :
           w.buf \in {<<123>> \o j \o <<125>> :
                        j \in JoinChoices(Members(vin.m, ks), <<44>>)}
    /\ NoSpace(w.buf)

\* a map of two members written with key "b" first
C8_Witness ==
  /\ op = "marshalTo"
  /\ w.failAt = 0
  /\ err = ""
  /\ vin.t = "map"
  /\ ~vin.isnil
  /\ DOMAIN vin.m = Keys
  /\ Slice(w.buf, 1, 4) = <<123, 34, 98, 34>>

\* C7: when a Write to the sink fails, marshalTo returns that error and
\* makes no further Write; it never returns nil after a failed Write.
C7_SinkErrorPropagates ==
  (op = "marshalTo" /\ w.firstFail # 0) =>
    /\ err = "io"
    /\ w.n = w.firstFail

\* what the claim says a RawMessage is encoded as
RawExpected(v) == IF v.isnil \/ v.r = <<>> THEN NullBytes ELSE v.r

\* C3: a RawMessage holding b is written as exactly b, a nil or empty one
\* as null, at the top level and as the only element of a list or map.
C3_RawPassthrough ==
  (op = "marshalTo" /\ w.failAt = 0) =>
    /\ vin.t = "raw" => (err = "" /\ w.buf = RawExpected(vin))
    /\ (vin.t = "list" /\ Len(vin.e) = 1 /\ vin.e[1].t = "raw") =>
         (err = "" /\ w.buf = <<91>> \o RawExpected(vin.e[1]) \o <<93>>)
    /\ (vin.t = "map" /\ DOMAIN vin.m = {<<97>>} /\ vin.m[<<97>>].t = "raw") =>
         (err = "" /\ w.buf = <<123, 34, 97, 34, 58>> \o RawExpected(vin.m[<<97>>]) \o <<125>>)

\* C2: marshal(v) and Marshal(v) fail on the same values and give the same
\* bytes, whatever order the map is ranged over.
C2_BackendsAgree ==
  op = "backends" =>
    /\ (err = "") <=> (std.err = "")
    /\ err = "" => w.buf = std.buf

\* whether every string of v is valid UTF-8
RECURSIVE ValidUTF8(_, _)
ValidUTF8(s, i) ==
  \/ i > Len(s)
  \/ LET r == DecodeRuneInString(s, i)
     IN ~(s[i] >= 128 /\ r.c = RuneError /\ r.size = 1) /\ ValidUTF8(s, i + r.size)

RECURSIVE ValidText(_)
ValidText(v) ==
  /\ v.t = "string" => ValidUTF8(v.s, 1)
  /\ v.t = "list" => \A i \in 1..Len(v.e) : ValidText(v.e[i])
  /\ v.t = "map" => \A k \in DOMAIN v.m : ValidUTF8(k, 1) /\ ValidText(v.m[k])

\* C1: for a value built from nil, bool, float64, string, []interface{} and
\* map[string]interface{} (its strings being valid UTF-8) that marshal
\* encodes, unmarshal of the bytes into a destination of the value's shape
\* succeeds and leaves a value equal to it.
C1_RoundTrip ==
  (op = "roundtrip" /\ ValidText(vin)) =>
    /\ res.st = "ok"
    /\ dest = vin

-----------------------------------------------------------------------------
(* Properties of the decoder, checked under SpecDec                        *)

\* the tokens of document d from pos up to the first error or the end
RECURSIVE TokSeq(_, _)
TokSeq(d, pos) ==
  LET r == readToken(d, pos)
  IN IF r.err # "" THEN <<>> ELSE <<r.tok>> \o TokSeq(d, r.pos)

FirstTok == readToken(data, 1)

\* the value a literal token stands for
Literal(tok) ==
  CASE tok.k = "bool"   -> Bool(tok.b)
    [] tok.k = "Number" -> F64(Float64(tok.text).f)
    [] tok.k = "string" -> Str(tok.s)
    [] tok.k = "null"   -> Nil

\* the value that starts at token i, read off the token sequence:
\* [val, next], each element typed by its own leading token
RECURSIVE RefVal(_, _)
RECURSIVE RefList(_, _, _)
RECURSIVE RefMap(_, _, _)
RefVal(toks, i) ==
  IF IsDelim(toks[i], 91) THEN RefList(toks, i + 1, <<>>)
  ELSE IF IsDelim(toks[i], 123) THEN RefMap(toks, i + 1, <<>>)
  ELSE [val |-> Literal(toks[i]), next |-> i + 1]

RefList(toks, i, acc) ==
  IF IsDelim(toks[i], 93) THEN [val |-> List(acc), next |-> i + 1]
  ELSE LET v == RefVal(toks, i)
       IN RefList(toks, v.next, acc \o <<v.val>>)

RefMap(toks, i, m) ==
  IF IsDelim(toks[i], 125) THEN [val |-> Map(m), next |-> i + 1]
  ELSE LET v == RefVal(toks, i + 1)
       IN RefMap(toks, v.next, (toks[i].s :> v.val) @@ m)

\* a token that stands for a value by itself
IsLit(tok) ==
  tok.k \in {"null", "bool", "string"} \/ (tok.k = "Number" /\ Float64(tok.text).err = "")

\* toks opens with '[' lit ... lit ']' and n is the index of that ']'
FlatList(toks, n) ==
  /\ n \in 2..Len(toks)
  /\ IsDelim(toks[1], 91)
  /\ IsDelim(toks[n], 93)
  /\ \A i \in 2..(n - 1) : IsLit(toks[i])

\* toks opens with '{' key lit ... key lit '}' and n is the index of that '}'
FlatMap(toks, n) ==
  /\ n \in 2..Len(toks)
  /\ n % 2 = 0
  /\ IsDelim(toks[1], 123)
  /\ IsDelim(toks[n], 125)
  /\ \A i \in 2..(n - 1) :
       IF i % 2 = 0 THEN toks[i].k = "string" ELSE IsLit(toks[i])

\* the members of a flat map: each key with the value of its last occurrence
FlatMembers(toks, n) ==
  LET ks == {i \in 2..(n - 1) : i % 2 = 0}
  IN [k \in {toks[i].s : i \in ks} |->
        Literal(toks[(CHOOSE i \in ks :
                        toks[i].s = k /\ \A j \in ks : toks[j].s = k => j <= i) + 1])]

ScalarKinds == {"iface", "bool", "float64", "string"}

\* the token kind a scalar destination asks for
Matches(kind, tok) ==
  CASE kind = "iface"   -> tok.k = "null"
    [] kind = "bool"    -> tok.k = "bool"
    [] kind = "float64" -> tok.k = "Number"
    [] kind = "string"  -> tok.k = "string"

\* C5 as stated: into a bool, float64, string or generic destination the
\* decode succeeds exactly when the token read is of the matching kind
\* (null for the generic one); any other token gives a type error.
C5_ScalarMatching ==
  (op = "unmarshal" /\ dst \in ScalarKinds /\ FirstTok.err = "") =>
    /\ (res.st = "ok") <=> Matches(dst, FirstTok.tok)
    /\ res.st # "ok" => (res.st = "err" /\ res.msg = "type")

\* whether a numeral's text converts to a float64
Parses(tok) == Float64(tok.text).err = ""

\* C5 amended: as stated, except that a float64 destination succeeds exactly
\* when the token is a Number whose text Number.Float64 converts; a Number
\* it cannot convert (1e999) returns the conversion's error.
C5_ScalarMatchingAmended ==
  (op = "unmarshal" /\ dst \in ScalarKinds /\ FirstTok.err = "") =>
    LET tok   == FirstTok.tok
        match == Matches(dst, tok)
        conv  == dst = "float64" => Parses(tok)
    IN /\ (res.st = "ok") <=> (match /\ conv)
       /\ ~match => (res.st = "err" /\ res.msg = "type")
       /\ (match /\ ~conv) => (res.st = "err" /\ res.msg = "range")
       /\ res.st = "ok" => dest = Literal(tok)

\* a Number token that a float64 destination refuses
C5_Witness ==
  /\ op = "unmarshal"
  /\ dst = "float64"
  /\ FirstTok.err = ""
  /\ FirstTok.tok.k = "Number"
  /\ res.st = "err"
  /\ res.msg = "range"

\* C6: when a decode does not return nil the destination holds what it held
\* before the call; it is assigned only by a decode that succeeds.
C6_NoPartialDestination ==
  (op = "unmarshal" /\ res.st # "ok") =>
    (~res.set /\ dest = Prior(dst))

\* an error two levels deep, after elements were decoded at both levels
C6_Witness ==
  /\ op = "unmarshal"
  /\ dst = "list"
  /\ res.st = "err"
  /\ res.msg = "range"
  /\ res.pos > 10
  /\ dest = Prior("list")

\* C10: every decode call ends by returning nil or an error; the panics of
\* newDefaultForToken and deref are never reached.
C10_NoPanic ==
  op = "unmarshal" => res.st \in {"ok", "err"}

====
